---- MODULE Spec2Model ----
(***************************************************************************)
(* Model of the VirtualList component in its two variants:                 *)
(*   "current" : src/src/VirtualList.tsx  (native scroll, scrollTop        *)
(*               compensation in componentDidUpdate / adjustScrollTop)     *)
(*   "legacy"  : src/unnamed/part_000     (wheel-driven runway translation,*)
(*               scrollStatus gate, slideRunwayToBuffer)                   *)
(* Page identifiers are 1..NumPages; 0 stands for `undefined`.             *)
(* A direction is the boolean isScrollingUp (TRUE = Before, FALSE = After).*)
(* Intersection ratios are expressed in percent.                           *)
(***************************************************************************)
EXTENDS Integers, Sequences, FiniteSets, TLC

\* ---------------------------------------------------------------- bounds
NumPages == 4            \* size of the host's dataset
StartPage == 1           \* page the host returns for an `undefined` argument
MaxBufferChoice == 2     \* settings.maxPageBuffer ranges over 1..MaxBufferChoice
MaxEvents == 3           \* fetches issued, user inputs and unmounts in one behaviour
MaxInflight == 2         \* unsettled host fetches at any time
BufferHeight == 5        \* rendered height of a sentinel buffer element
ViewportHeight == 6      \* viewport.getBoundingClientRect().height

Variants == {"current", "legacy"}
UserAgents == {"chrome", "firefox", "safari", "other"}
Ratios == {0, 5, 20, 21}
WheelDeltas == {-1, 1}
ScrollDeltas == {-1, 1}
BoolSettings == {"startBottomUp", "isPagingEnabled", "debug"}

\* Rendered height (offsetHeight) of a page element.
HeightOf(p) == p

VARIABLES
  variant,              \* which source file is being run
  userAgent,            \* navigator.userAgent class as getDelta has read it, "unread" before (legacy)
  lifecycle,            \* "constructed" | "mounted" | "unmounted"
  pages,                \* state.pages
  settings,             \* state.settings
  isScrollingUp,        \* state.isScrollingUp (current)
  previousBufferHeight, \* state.previousBufferHeight (current)
  nextBufferHeight,     \* state.nextBufferHeight (current)
  scrollTop,            \* viewport.scrollTop (current)
  runwayY,              \* this.runwayY (legacy)
  scrollStatus,         \* this.scrollStatus (legacy)
  inflight,             \* unsettled host fetches, in issue order
  rafQueue,             \* callbacks passed to requestAnimationFrame
  events,               \* history: fetches issued, user inputs and unmounts so far
  exhausted,            \* history: direction resolved undefined since last reset
  numPrepend,           \* history: prepend merges performed
  numAdjust,            \* history: scroll/runway compensations performed
  lastSettle,           \* history: the most recent fetch settlement
  lastPaused,           \* history: per sentinel, whether its latest notification was above the pause threshold (legacy)
  probe,                \* history: the merge whose animation frame is awaited, and
                        \* the one user scroll since, if any
  lastAct               \* history: the settlement, failure, notification with paging
                        \* switched off or gated wheel event that has just happened, if any

vars == <<variant, userAgent, lifecycle, pages, settings, isScrollingUp,
          previousBufferHeight, nextBufferHeight, scrollTop, runwayY,
          scrollStatus, inflight, rafQueue, events,
          exhausted, numPrepend, numAdjust, lastSettle, lastPaused, probe,
          lastAct>>

\* ------------------------------------------------------- lodash helpers
head(s) == IF Len(s) = 0 THEN 0 ELSE s[1]
last(s) == IF Len(s) = 0 THEN 0 ELSE s[Len(s)]
take(s, n) == IF n >= Len(s) THEN s ELSE SubSeq(s, 1, n)
takeRight(s, n) == IF n >= Len(s) THEN s ELSE SubSeq(s, Len(s) - n + 1, Len(s))

\* ------------------------------------------------------------- the host
\* A host that serves the dataset neighbour of the page it is given.
getPageBefore(currentPage) ==
  IF currentPage = 0 THEN StartPage
  ELSE IF currentPage > 1 THEN currentPage - 1 ELSE 0

getPageAfter(currentPage) ==
  IF currentPage = 0 THEN StartPage
  ELSE IF currentPage < NumPages THEN currentPage + 1 ELSE 0

\* ------------------------------------------------------ pure code parts
defaultSettings(v) ==
  [startBottomUp |-> FALSE, maxPageBuffer |-> IF v = "current" THEN 15 ELSE 10,
   isPagingEnabled |-> TRUE, debug |-> FALSE]

\* pages computed by addPage from state.pages and the fetched page
mergePages_alwaysPrepend(ps, page, up, maxPageBuffer) ==
  <<page>> \o take(ps, maxPageBuffer)

mergePages_replacesWindow(ps, page, up, maxPageBuffer) == <<page>>

mergePages_keepsAll(ps, page, up, maxPageBuffer) ==
  IF up THEN <<page>> \o ps ELSE ps \o <<page>>

mergePages(ps, page, up, maxPageBuffer) ==
  IF up THEN <<page>> \o take(ps, maxPageBuffer)
  ELSE takeRight(ps, maxPageBuffer) \o <<page>>

\* prunedElementHeight measured by the legacy addPage before setState
prunedElementHeight_afterMutation(ps, up, maxPageBuffer) ==
  IF up /\ Len(take(ps, maxPageBuffer)) >= maxPageBuffer + 1
    THEN HeightOf(last(ps)) ELSE 0

prunedElementHeight(ps, up, maxPageBuffer) ==
  IF up /\ Len(ps) >= maxPageBuffer + 1 THEN HeightOf(last(ps)) ELSE 0

\* offsetHeight of previousBuffer.nextElementSibling for a rendered window
firstElementHeight(ps) == IF Len(ps) = 0 THEN BufferHeight ELSE HeightOf(ps[1])

getDelta(ua, deltaY) ==
  IF ua = "chrome" THEN deltaY * (-3)
  ELSE IF ua = "firefox" THEN deltaY * (-3)
  ELSE IF ua = "safari" THEN deltaY * (-300)
  ELSE 0

isIntersecting(v, ratio) == IF v = "current" THEN ratio > 0 ELSE ratio > 5
shouldPauseScrolling(ratio) == ratio > 20

\* handleIntersection's early return, negated:
\* current `if (!isIntersecting || !this.state.settings.isPagingEnabled) return;`
\* legacy  `if (!isIntersecting || this.state.settings.debug) return;`
shouldAddPage_ignoresDebug(v, ratio, st) ==
  isIntersecting(v, ratio) /\ (v = "current" => st.isPagingEnabled)

shouldAddPage_ignoresPaging(v, ratio, st) ==
  isIntersecting(v, ratio) /\ (v = "legacy" => ~st.debug)

shouldAddPage(v, ratio, st) ==
  /\ isIntersecting(v, ratio)
  /\ IF v = "current" THEN st.isPagingEnabled ELSE ~st.debug

\* the value handleIntersection assigns to this.scrollStatus (legacy)
nextScrollStatus_bothFlags(status, up, ratio) ==
  [canScrollUp |-> ~shouldPauseScrolling(ratio),
   canScrollDown |-> ~shouldPauseScrolling(ratio)]

nextScrollStatus(status, up, ratio) ==
  [canScrollUp |-> IF up THEN ~shouldPauseScrolling(ratio)
                         ELSE status.canScrollUp,
   canScrollDown |-> IF ~up THEN ~shouldPauseScrolling(ratio)
                            ELSE status.canScrollDown]

\* onWheel's early return
wheelIsGated_never(status, goingUp) == FALSE

wheelIsGated(status, goingUp) ==
  \/ (~status.canScrollUp /\ goingUp)
  \/ (~status.canScrollDown /\ ~goingUp)

InFlightCount(up) == Cardinality({i \in 1..Len(inflight) : inflight[i].up = up})

\* a merge whose update met an empty animation-frame queue, followed up to its frame
NoProbe == [phase |-> "none", up |-> FALSE, evicts |-> FALSE, fires |-> FALSE,
            top |-> 0, h |-> 0, d |-> 0]
NoSettle == [up |-> FALSE, page |-> 0, prior |-> <<>>, pend |-> 0]
\* what the addPage call that resumed last saw when it resumed
NoAct == [name |-> "none", up |-> FALSE, page |-> 0, prior |-> <<>>,
          flag |-> FALSE, top |-> 0, runway |-> 0, conc |-> FALSE,
          prev |-> NoSettle]
ActFrom(name, up) == [NoAct EXCEPT !.name = name, !.up = up, !.prior = pages,
                                   !.flag = isScrollingUp, !.top = scrollTop,
                                   !.runway = runwayY]

\* ------------------------------------------------------------------ Init
Init ==
  /\ variant \in Variants
  /\ userAgent = "unread"
  /\ lifecycle = "constructed"
  /\ pages = <<>>
  /\ \E sb \in BOOLEAN, mb \in 1..MaxBufferChoice, pe \in BOOLEAN, db \in BOOLEAN :
        /\ variant = "legacy" => pe = TRUE
        /\ settings = [defaultSettings(variant) EXCEPT !.startBottomUp = sb,
                         !.maxPageBuffer = mb, !.isPagingEnabled = pe, !.debug = db]
  /\ isScrollingUp = settings.startBottomUp
  /\ previousBufferHeight = 0
  /\ nextBufferHeight = 0
  /\ scrollTop = 0
  /\ runwayY = 0
  /\ scrollStatus = [canScrollUp |-> TRUE, canScrollDown |-> TRUE]
  /\ inflight = <<>>
  /\ rafQueue = <<>>
  /\ events = 0
  /\ exhausted = [d \in BOOLEAN |-> FALSE]
  /\ numPrepend = 0
  /\ numAdjust = 0
  /\ lastSettle = NoSettle
  /\ lastPaused = [d \in BOOLEAN |-> FALSE]
  /\ probe = NoProbe
  /\ lastAct = NoAct

\* --------------------------------------------------------------- actions
hist == <<events, exhausted, numPrepend, numAdjust, lastSettle>>
gate == <<scrollStatus, lastPaused>>
config == <<variant, userAgent>>

\* componentDidUpdate -> adjustScrollTop(prevState.isScrollingUp, snapshot):
\* the callback handed to requestAnimationFrame closes over both arguments.
componentDidUpdate(prevIsScrollingUp, snapshotScrollTop) ==
  Append(rafQueue, [isScrollingUp |-> prevIsScrollingUp,
                    previousScrollTop |-> snapshotScrollTop])

\* slideRunwayInPx: runwayY moves at once.  The animation-frame callback it
\* schedules copies the runwayY of that moment into runway.style.transform and
\* reads or writes nothing else, so the style is not kept as state.
slideRunwayInPx(delta) ==
  /\ runwayY' = runwayY + delta

\* componentDidMount -> setup
Mount ==
  /\ lifecycle = "constructed"
  /\ lifecycle' = "mounted"
  /\ IF variant = "current"
       THEN /\ previousBufferHeight' = ViewportHeight
            /\ nextBufferHeight' = ViewportHeight
            /\ rafQueue' = componentDidUpdate(isScrollingUp, scrollTop)
            /\ UNCHANGED runwayY
       ELSE /\ IF ~settings.startBottomUp
                 THEN slideRunwayInPx(-BufferHeight)
                 ELSE UNCHANGED runwayY
            /\ UNCHANGED <<previousBufferHeight, nextBufferHeight, rafQueue>>
  /\ probe' = NoProbe
  /\ lastAct' = NoAct
  /\ UNCHANGED <<config, pages, settings, isScrollingUp, scrollTop,
                 gate, inflight, hist>>

\* componentWillUnmount: the observer is disconnected (and, in the legacy
\* variant, the wheel listener removed).  Pending fetches and animation-frame
\* callbacks are not cancelled.
Unmount ==
  /\ lifecycle = "mounted"
  /\ events < MaxEvents
  /\ events' = events + 1
  /\ lifecycle' = "unmounted"
  /\ probe' = NoProbe
  /\ lastAct' = NoAct
  /\ UNCHANGED <<config, pages, settings, isScrollingUp, previousBufferHeight,
                 nextBufferHeight, scrollTop, runwayY, gate, inflight,
                 rafQueue, exhausted, numPrepend, numAdjust, lastSettle>>

\* The synchronous part of addPage: the host call made before the await.
issueFetch(up) ==
  /\ inflight' = Append(inflight,
                   [up |-> up, arg |-> IF up THEN head(pages) ELSE last(pages)])
  /\ events' = events + 1

CanIssue ==
  /\ events < MaxEvents
  /\ Len(inflight) < MaxInflight

\* IntersectionObserver callback for one entry
handleIntersection(up, ratio) ==
  /\ lifecycle = "mounted"
  /\ LET fetch == shouldAddPage(variant, ratio, settings)
     IN /\ fetch => CanIssue
        /\ IF variant = "legacy"
             THEN /\ scrollStatus' = nextScrollStatus(scrollStatus, up, ratio)
                  /\ lastPaused' = [lastPaused EXCEPT ![up] = ratio > 20]
             ELSE UNCHANGED gate
        /\ IF fetch THEN issueFetch(up) ELSE UNCHANGED <<inflight, events>>
        /\ lastAct' = IF isIntersecting(variant, ratio) /\ ~settings.isPagingEnabled
                         THEN [NoAct EXCEPT !.name = "pagingOff"]
                         ELSE NoAct
  /\ probe' = NoProbe
  /\ UNCHANGED <<config, lifecycle, pages, settings, isScrollingUp,
                 previousBufferHeight, nextBufferHeight, scrollTop, runwayY,
                 rafQueue, exhausted, numPrepend, numAdjust, lastSettle>>

\* Debug controls: "add page before" / "add page after"
manualAddPage(up) ==
  /\ lifecycle = "mounted"
  /\ settings.debug
  /\ CanIssue
  /\ issueFetch(up)
  /\ lastAct' = NoAct
  /\ probe' = NoProbe
  /\ UNCHANGED <<config, lifecycle, pages, settings, isScrollingUp,
                 previousBufferHeight, nextBufferHeight, scrollTop, runwayY,
                 gate, rafQueue, exhausted,
                 numPrepend, numAdjust, lastSettle>>

RemoveAt(s, i) == SubSeq(s, 1, i - 1) \o SubSeq(s, i + 1, Len(s))

\* `if (!page) { return; }`
addPageReturnsEarly_never(page) == FALSE

addPageReturnsEarly(page) == page = 0

\* `this.setState(...)` of a component that has been unmounted: React drops
\* the update (no state change, no re-render, no lifecycle or callback run).
\* The source itself checks nothing before calling setState.
setStateIsDropped_never(lc) == FALSE

setStateIsDropped(lc) == lc = "unmounted"

\* The part of addPage after the await, for a fetch that resolved with `page`:
\* the merge, setState and what the update runs synchronously.
addPageResume(page, up) ==
  IF addPageReturnsEarly(page) \/ setStateIsDropped(lifecycle)
    THEN /\ UNCHANGED <<pages, isScrollingUp, rafQueue, runwayY, numPrepend, numAdjust>>
         /\ probe' = NoProbe
    ELSE /\ pages' = mergePages(pages, page, up, settings.maxPageBuffer)
         /\ numPrepend' = IF up THEN numPrepend + 1 ELSE numPrepend
         /\ IF variant = "current"
              THEN /\ isScrollingUp' = up
                   /\ rafQueue' = componentDidUpdate(isScrollingUp, scrollTop)
                   /\ UNCHANGED <<runwayY, numAdjust>>
              ELSE /\ UNCHANGED isScrollingUp
                   /\ IF up
                        THEN /\ slideRunwayInPx(
                                  -firstElementHeight(pages')
                                  + prunedElementHeight(pages, up, settings.maxPageBuffer))
                             /\ numAdjust' = numAdjust + 1
                        ELSE UNCHANGED <<runwayY, numAdjust>>
                   /\ UNCHANGED rafQueue
         /\ probe' = IF Len(rafQueue) = 0
                       THEN [phase |-> "merged", up |-> up,
                             evicts |-> Len(pages) > settings.maxPageBuffer,
                             fires |-> isScrollingUp,
                             top |-> scrollTop, h |-> HeightOf(page), d |-> 0]
                       ELSE NoProbe

\* A host fetch settles and the awaiting addPage call continues.
settle(i) ==
  /\ i \in 1..Len(inflight)
  /\ LET f == inflight[i]
         page == IF f.up THEN getPageBefore(f.arg) ELSE getPageAfter(f.arg)
     IN /\ addPageResume(page, f.up)
        /\ inflight' = RemoveAt(inflight, i)
        /\ exhausted' = IF page = 0 /\ lifecycle = "mounted"
                          THEN [exhausted EXCEPT ![f.up] = TRUE]
                          ELSE exhausted
        /\ lastSettle' = IF lifecycle = "mounted"
                           THEN [up |-> f.up, page |-> page, prior |-> pages,
                                 pend |-> Len(inflight) - 1]
                           ELSE lastSettle
        /\ lastAct' = [ActFrom(IF lifecycle = "mounted" THEN "settle"
                                                          ELSE "settleUnmounted",
                               f.up) EXCEPT !.page = page,
                          !.conc = (i <= lastSettle.pend), !.prev = lastSettle]
  /\ UNCHANGED <<config, lifecycle, settings, previousBufferHeight,
                 nextBufferHeight, scrollTop, gate, events>>

\* The awaited host promise rejects: the await throws inside addPage, nothing
\* after it runs, and neither addPage nor handleIntersection catches it.
addPageRejected_halfMerge(up) ==
  /\ pages' = IF up THEN take(pages, settings.maxPageBuffer)
                    ELSE takeRight(pages, settings.maxPageBuffer)
  /\ UNCHANGED <<isScrollingUp, rafQueue, runwayY, numPrepend, numAdjust>>

addPageRejected(up) ==
  UNCHANGED <<pages, isScrollingUp, rafQueue, runwayY, numPrepend, numAdjust>>

\* A host fetch fails.
reject(i) ==
  /\ i \in 1..Len(inflight)
  /\ addPageRejected(inflight[i].up)
  /\ inflight' = RemoveAt(inflight, i)
  /\ lastSettle' = [lastSettle EXCEPT !.pend = IF i <= @ THEN @ - 1 ELSE @]
  /\ probe' = NoProbe
  /\ lastAct' = ActFrom("reject", inflight[i].up)
  /\ UNCHANGED <<config, lifecycle, settings, previousBufferHeight,
                 nextBufferHeight, scrollTop, gate, events, exhausted>>

\* One requestAnimationFrame callback of adjustScrollTop, run on offset `top`.
adjustCallback(cb, top) ==
  IF cb.isScrollingUp THEN cb.previousScrollTop + firstElementHeight(pages) ELSE top

RECURSIVE runCallbacks(_, _)
runCallbacks(q, top) ==
  IF Len(q) = 0 THEN top ELSE runCallbacks(Tail(q), adjustCallback(q[1], top))

\* The browser runs every queued animation-frame callback of adjustScrollTop,
\* in order (current variant; the legacy variant queues none that touch state).
\* After unmount the viewport and the buffers are out of the document: a
\* callback that still runs finds no laid-out element and moves no offset.
animationFrame ==
  /\ Len(rafQueue) > 0
  /\ rafQueue' = <<>>
  /\ IF lifecycle = "unmounted"
       THEN UNCHANGED <<scrollTop, numAdjust>>
       ELSE /\ scrollTop' = runCallbacks(rafQueue, scrollTop)
            /\ numAdjust' = numAdjust
                 + Cardinality({i \in 1..Len(rafQueue) : rafQueue[i].isScrollingUp})
  /\ probe' = IF probe.phase = "merged" THEN [probe EXCEPT !.phase = "framed"]
                                        ELSE NoProbe
  /\ lastAct' = NoAct
  /\ UNCHANGED <<config, lifecycle, pages, settings, isScrollingUp,
                 previousBufferHeight, nextBufferHeight, runwayY, gate,
                 inflight, events, exhausted, numPrepend, lastSettle>>

\* DebugPanel toggle of one boolean setting (current variant)
toggle(setting) ==
  /\ variant = "current"
  /\ lifecycle = "mounted"
  /\ settings.debug
  /\ events < MaxEvents
  /\ events' = events + 1
  /\ settings' = [settings EXCEPT ![setting] = ~settings[setting]]
  /\ rafQueue' = componentDidUpdate(isScrollingUp, scrollTop)
  /\ exhausted' = [d \in BOOLEAN |-> FALSE]
  /\ probe' = NoProbe
  /\ lastAct' = NoAct
  /\ UNCHANGED <<config, lifecycle, pages, isScrollingUp, previousBufferHeight,
                 nextBufferHeight, scrollTop, runwayY, gate,
                 inflight, numPrepend, numAdjust, lastSettle>>

\* Native scrolling of the viewport by the user (current variant); the
\* browser keeps the offset non-negative.
userScroll(d) ==
  /\ variant = "current"
  /\ lifecycle = "mounted"
  /\ events < MaxEvents
  /\ scrollTop + d >= 0
  /\ events' = events + 1
  /\ scrollTop' = scrollTop + d
  /\ probe' = IF probe.phase = "merged" /\ probe.d = 0
                THEN [probe EXCEPT !.d = d]
                ELSE NoProbe
  /\ lastAct' = NoAct
  /\ UNCHANGED <<config, lifecycle, pages, settings, isScrollingUp,
                 previousBufferHeight, nextBufferHeight, runwayY,
                 gate, inflight, rafQueue,
                 exhausted, numPrepend, numAdjust, lastSettle>>

\* wheel listener (legacy variant).  getDelta tests navigator.userAgent on
\* every event; the browser is the same one throughout a session, so the
\* first event fixes the class and later events read the same one.
onWheel(deltaY) ==
  /\ variant = "legacy"
  /\ lifecycle = "mounted"
  /\ events < MaxEvents
  /\ events' = events + 1
  /\ \E ua \in UserAgents :
       /\ userAgent \in {"unread", ua}
       /\ userAgent' = ua
       /\ LET delta == getDelta(ua, deltaY)
              goingUp == delta >= 0
          IN /\ IF wheelIsGated(scrollStatus, goingUp)
                  THEN UNCHANGED runwayY
                  ELSE slideRunwayInPx(delta)
             /\ lastAct' = IF wheelIsGated(scrollStatus, goingUp)
                              THEN [NoAct EXCEPT !.name = "gated", !.up = goingUp]
                              ELSE NoAct
  /\ probe' = NoProbe
  /\ UNCHANGED <<variant, lifecycle, pages, settings, isScrollingUp,
                 previousBufferHeight, nextBufferHeight, scrollTop,
                 gate, inflight, rafQueue, exhausted,
                 numPrepend, numAdjust, lastSettle>>

Next ==
  \/ Mount
  \/ Unmount
  \/ \E up \in BOOLEAN, ratio \in Ratios : handleIntersection(up, ratio)
  \/ \E up \in BOOLEAN : manualAddPage(up)
  \/ \E i \in 1..MaxInflight : settle(i)
  \/ \E i \in 1..MaxInflight : reject(i)
  \/ animationFrame
  \/ \E setting \in BoolSettings : toggle(setting)
  \/ \E d \in ScrollDeltas : userScroll(d)
  \/ \E deltaY \in WheelDeltas : onWheel(deltaY)

Spec == Init /\ [][Next]_vars

\* The variant is fixed at construction: a behaviour of Spec is a behaviour of
\* one of the two specifications below, each with the handlers its source has.
InitCurrent == Init /\ variant = "current"

NextCurrent ==
  \/ Mount
  \/ Unmount
  \/ \E up \in BOOLEAN, ratio \in Ratios : handleIntersection(up, ratio)
  \/ \E up \in BOOLEAN : manualAddPage(up)
  \/ \E i \in 1..MaxInflight : settle(i)
  \/ \E i \in 1..MaxInflight : reject(i)
  \/ animationFrame
  \/ \E setting \in BoolSettings : toggle(setting)
  \/ \E d \in ScrollDeltas : userScroll(d)

SpecCurrent == InitCurrent /\ [][NextCurrent]_vars

InitLegacy == Init /\ variant = "legacy"

NextLegacy ==
  \/ Mount
  \/ Unmount
  \/ \E up \in BOOLEAN, ratio \in Ratios : handleIntersection(up, ratio)
  \/ \E up \in BOOLEAN : manualAddPage(up)
  \/ \E i \in 1..MaxInflight : settle(i)
  \/ \E i \in 1..MaxInflight : reject(i)
  \/ \E deltaY \in WheelDeltas : onWheel(deltaY)

SpecLegacy == InitLegacy /\ [][NextLegacy]_vars

\* ================================================================ claims

\* C1 (as stated): the window never holds more than settings.maxPageBuffer pages.
C1_WindowBound == Len(pages) <= settings.maxPageBuffer

\* C2 (as stated): at most one unsettled host fetch per direction.
C2_AtMostOneInFlight == \A d \in BOOLEAN : InFlightCount(d) <= 1

\* C3 (as stated): a sentinel notification for a direction that has resolved
\* undefined since the last reset issues no host fetch.
C3_ExhaustionSticky ==
  [][\A up \in BOOLEAN :
       (exhausted[up] /\ \E ratio \in Ratios : handleIntersection(up, ratio))
         => inflight' = inflight]_vars

\* C4 (as stated): page identifiers in the window are pairwise distinct.
C4_NoDuplicates ==
  \A i, j \in 1..Len(pages) : i # j => pages[i] # pages[j]

\* C5 (as stated): merging into a window of exactly maxPageBuffer pages drops
\* the last page on a prepend and the first page on an append.
C5_EvictionAtCapacity ==
  (/\ lastAct.name = "settle"
   /\ lastAct.page # 0
   /\ Len(lastAct.prior) = settings.maxPageBuffer)
  => pages = IF lastAct.up
               THEN <<lastAct.page>> \o SubSeq(lastAct.prior, 1, Len(lastAct.prior) - 1)
               ELSE Tail(lastAct.prior) \o <<lastAct.page>>

\* An After fetch has just merged P2, it was already in flight when the
\* previous settlement, a Before fetch, merged P1.
BeforeThenAfter ==
  /\ lastAct.name = "settle"
  /\ ~lastAct.up
  /\ lastAct.page # 0
  /\ lastAct.conc
  /\ lastAct.prev.up
  /\ lastAct.prev.page # 0

\* C6 (as stated): Before resolves with P1, then After with P2, both having
\* been in flight together: the window is P1, the previous pages, P2.
C6_BeforeThenAfterAnyWindow ==
  BeforeThenAfter =>
    pages = <<lastAct.prev.page>> \o lastAct.prev.prior \o <<lastAct.page>>

\* C6 (amended): the same, for a prior window of fewer than maxPageBuffer pages.
C6_BeforeThenAfterWithRoom ==
  (BeforeThenAfter /\ Len(lastAct.prev.prior) < settings.maxPageBuffer) =>
    pages = <<lastAct.prev.page>> \o lastAct.prev.prior \o <<lastAct.page>>

C6_Witness ==
  /\ BeforeThenAfter
  /\ Len(lastAct.prev.prior) >= 1
  /\ Len(lastAct.prev.prior) < settings.maxPageBuffer

\* C7 (as stated): current variant; a prepend merge of a page of height h that
\* evicts nothing (no earlier callback pending), followed by the animation
\* frame with no other event in between, leaves the scroll offset at its
\* pre-merge value plus h.
C7_CompensationExact ==
  (/\ variant = "current"
   /\ probe.phase = "framed"
   /\ probe.up
   /\ ~probe.evicts
   /\ probe.d = 0)
  => scrollTop = probe.top + probe.h

\* C8 (as stated): once no animation-frame callback is pending, as many
\* compensations have been performed as prepend merges.
C8_OneAdjustPerPrepend ==
  Len(rafQueue) = 0 => numAdjust = numPrepend

\* C9 (as stated): an append merge changes neither the scroll offset (current
\* variant, through the animation frame that follows it) nor runwayY (legacy).
C9_AppendNoCompensation ==
  /\ (variant = "current" /\ probe.phase = "framed" /\ ~probe.up /\ probe.d = 0)
       => scrollTop = probe.top
  /\ (variant = "legacy" /\ lastAct.name = "settle" /\ lastAct.page # 0 /\ ~lastAct.up)
       => runwayY = lastAct.runway

\* C10: a fetch that resolves undefined leaves the window, the scroll-direction
\* flag, the scroll offset and the runway offset as they were.
C10_AbsentPageNoOp ==
  (lastAct.name = "settle" /\ lastAct.page = 0) =>
    /\ pages = lastAct.prior
    /\ isScrollingUp = lastAct.flag
    /\ scrollTop = lastAct.top
    /\ runwayY = lastAct.runway

C10_Witness ==
  /\ lastAct.name = "settle"
  /\ lastAct.page = 0
  /\ Len(pages) >= 1

C12_NoPartialMerge ==
  [][/\ lastAct'.name = "reject" =>
          /\ UNCHANGED <<pages, settings, isScrollingUp, scrollTop, runwayY, rafQueue>>
          /\ Len(inflight') = Len(inflight) - 1
          /\ events' = events
     /\ \/ pages' = pages
        \/ \E p \in 1..NumPages :
             \/ pages' = <<p>> \o take(pages, settings.maxPageBuffer)
             \/ pages' = takeRight(pages, settings.maxPageBuffer) \o <<p>>]_vars

C12_Witness ==
  /\ lastAct.name = "reject"
  /\ Len(pages) > settings.maxPageBuffer

\* C13 (as stated): while settings.debug is true no sentinel notification
\* issues a host fetch, and every fetch issued is a manual add-page action.
C13_DebugNoAutoFetch ==
  [][settings.debug =>
       /\ \/ inflight' = inflight
          \/ \A up \in BOOLEAN, ratio \in Ratios : ~handleIntersection(up, ratio)
       /\ Len(inflight') > Len(inflight) => \E up \in BOOLEAN : manualAddPage(up)]_vars

\* C13 (amended): the same, in the legacy variant.
C13_DebugNoAutoFetchLegacy ==
  [][(variant = "legacy" /\ settings.debug) =>
       /\ \/ inflight' = inflight
          \/ \A up \in BOOLEAN, ratio \in Ratios : ~handleIntersection(up, ratio)
       /\ Len(inflight') > Len(inflight) => \E up \in BOOLEAN : manualAddPage(up)]_vars

\* legacy, debug mode: a notification above the pause threshold has been
\* handled (the gate flag is down) and nothing has been fetched
C13_Witness ==
  /\ variant = "legacy"
  /\ settings.debug
  /\ ~scrollStatus.canScrollUp
  /\ events = 0
  /\ inflight = <<>>

\* C14: current variant; a sentinel notification handled while
\* settings.isPagingEnabled is false issues no fetch and leaves the window
\* alone, and one handled while it is true (again) with a positive ratio
\* issues a fetch for its direction.
C14_PagingKillSwitch ==
  [][variant = "current" =>
       IF settings.isPagingEnabled
         THEN \A up \in BOOLEAN :
                \/ Len(inflight') = Len(inflight) + 1 /\ last(inflight').up = up
                \/ \A ratio \in Ratios \ {0} : ~handleIntersection(up, ratio)
         ELSE \/ inflight' = inflight /\ pages' = pages
              \/ \A up \in BOOLEAN, ratio \in Ratios :
                   ~handleIntersection(up, ratio)]_vars

C14_Witness ==
  /\ variant = "current"
  /\ lastAct.name = "pagingOff"
  /\ ~settings.isPagingEnabled

\* C15: legacy variant; a wheel event toward a sentinel whose most recent
\* notification reported a ratio above the pause threshold leaves runwayY
\* unchanged, and one toward a sentinel whose most recent notification (if
\* any) was at or below the threshold moves runwayY by the event's delta.
C15_ScrollGate ==
  [][\A deltaY \in WheelDeltas :
       onWheel(deltaY) =>
         LET delta == getDelta(userAgent', deltaY)
             goingUp == delta >= 0
         IN runwayY' = IF lastPaused[goingUp] THEN runwayY
                                              ELSE runwayY + delta]_vars

\* a wheel event has just been swallowed: the latest notification for the
\* sentinel it moves toward was above the threshold
C15_Witness ==
  /\ lastAct.name = "gated"
  /\ lastPaused[lastAct.up]
  /\ userAgent \in {"chrome", "firefox", "safari"}

\* C16 (as stated): current variant; the user scrolls the viewport by d
\* between a prepend merge of a page of height h and the animation frame in
\* which its compensation runs: after that frame the scroll offset is the
\* pre-merge offset plus d plus h.
C16_FreshOffsetRead ==
  (/\ variant = "current"
   /\ probe.phase = "framed"
   /\ probe.up
   /\ probe.fires
   /\ probe.d # 0)
  => scrollTop = probe.top + probe.d + probe.h

\* C17: a fetch that resolves with a page on a mounted component merges it
\* into the window as it is when the fetch settles, whatever has been merged
\* since the fetch was issued: the new window is the page put before (after)
\* the first (last) maxPageBuffer pages of the settle-time window.
C17_MergeOnCurrentWindow ==
  (lastAct.name = "settle" /\ lastAct.page # 0) =>
    pages = IF lastAct.up
              THEN <<lastAct.page>> \o take(lastAct.prior, settings.maxPageBuffer)
              ELSE takeRight(lastAct.prior, settings.maxPageBuffer) \o <<lastAct.page>>

\* the fetch that has just merged was already in flight when the previous
\* settlement merged its page, and that page is still in the window
C17_Witness ==
  /\ lastAct.name = "settle"
  /\ lastAct.page # 0
  /\ lastAct.conc
  /\ lastAct.prev.page # 0
  /\ lastAct.prior = mergePages(lastAct.prev.prior, lastAct.prev.page,
                                lastAct.prev.up, settings.maxPageBuffer)
  /\ \E i \in 1..Len(pages) : pages[i] = lastAct.prev.page
  /\ Len(pages) = Len(lastAct.prior) + 1

\* C18: legacy variant; a prepend merge moves runwayY by minus the height of
\* the inserted page, plus the height of the page that was last in the window
\* before the merge exactly when the merge dropped that page.
C18_PrunedHeight ==
  (/\ variant = "legacy"
   /\ lastAct.name = "settle"
   /\ lastAct.page # 0
   /\ lastAct.up)
  => LET dropped == Len(pages) < Len(lastAct.prior) + 1
         pruned == IF dropped THEN HeightOf(last(lastAct.prior)) ELSE 0
     IN /\ runwayY = lastAct.runway - HeightOf(lastAct.page) + pruned
        /\ dropped <=> pruned # 0

\* a prepend has just dropped the last page of a full window
C18_Witness ==
  /\ variant = "legacy"
  /\ lastAct.name = "settle"
  /\ lastAct.page # 0
  /\ lastAct.up
  /\ Len(lastAct.prior) = settings.maxPageBuffer + 1
  /\ Len(pages) = Len(lastAct.prior)

\* C19: legacy variant; each gate flag is true until the first notification
\* for its own sentinel and from then on is (ratio <= 0.2) of the latest
\* notification for that sentinel, in debug mode too; notifications for the
\* other sentinel do not touch it.
C19_GateFlagsIndependent ==
  variant = "legacy" =>
    /\ scrollStatus.canScrollUp = ~lastPaused[TRUE]
    /\ scrollStatus.canScrollDown = ~lastPaused[FALSE]

\* debug mode: one flag has been taken down and the other is still up
C19_Witness ==
  /\ variant = "legacy"
  /\ settings.debug
  /\ scrollStatus.canScrollUp # scrollStatus.canScrollDown

\* C20: the window never holds more than maxPageBuffer + 1 pages, and a merge
\* drops no page from a window of at most maxPageBuffer pages and exactly one
\* from a window of maxPageBuffer + 1.
C20_CapacityInvariant ==
  /\ Len(pages) <= settings.maxPageBuffer + 1
  /\ (lastAct.name = "settle" /\ lastAct.page # 0) =>
       Len(pages) = IF Len(lastAct.prior) = settings.maxPageBuffer + 1
                      THEN Len(lastAct.prior)
                      ELSE Len(lastAct.prior) + 1

\* a merge into a window of maxPageBuffer + 1 pages has just dropped one
C20_Witness ==
  /\ lastAct.name = "settle"
  /\ lastAct.page # 0
  /\ Len(lastAct.prior) = settings.maxPageBuffer + 1
  /\ Len(pages) = settings.maxPageBuffer + 1

====
